---- MODULE Spec2Model ----
(***************************************************************************)
(* Model of llmagent/vector_store/qdrantdb.py: the QdrantDB adapter, its   *)
(* configuration (collection_name, batch_size, embedding_dim) and the      *)
(* requests it sends to the embedding model and to the vector service.     *)
(* The vector service is the environment: a named set of collections, each *)
(* with a vector size and a set of points; the status it reports for a     *)
(* collection and its answer to a search are chosen when they are read.    *)
(* A call is one step; Return hands its outcome to the caller.             *)
(***************************************************************************)
EXTENDS Integers, Sequences, FiniteSets, TLC

VARIABLES colls, collection_name, embedding_dim, faultsOn,
          call, requests, outcome, result, warned, failed, pre

vars == <<colls, collection_name, embedding_dim, faultsOn,
          call, requests, outcome, result, warned, failed, pre>>

\* ---------------------------------------------------------------- bounds
MaxDocs == 3
MaxBatch == 2
MaxK == 2
MaxIds == 2

\* ------------------------------------------------------------- constants
HnswEf == 128

None == "None"
Names == {"a", "b"}
NameOrder == <<"a", "b">>
Dims == {1, 2}
Statuses == {"GREEN", "YELLOW"}

Min(x, y) == IF x < y THEN x ELSE y

\* ------------------------------------------------ identifiers and strings
\* A string is a sequence of one-character strings.
Digits == <<"0", "1", "2", "3", "4", "5", "6", "7", "8", "9">>

IsDigit(c) == \E i \in 1..10 : Digits[i] = c

DigitVal(c) == (CHOOSE i \in 1..10 : Digits[i] = c) - 1

\* Point keys: the service keeps integer keys and string keys apart.
IntKey(n) == [t |-> "int", n |-> n, s |-> <<>>]
StrKey(s) == [t |-> "str", n |-> 0, s |-> s]

RECURSIVE DigitsVal(_, _)
DigitsVal(s, acc) ==
  IF s = <<>> THEN acc ELSE DigitsVal(Tail(s), acc * 10 + DigitVal(Head(s)))

\* int(id): an optional sign followed by one or more decimal digits.
ParseInt(s) ==
  LET signed == s # <<>> /\ Head(s) \in {"+", "-"}
      body == IF signed THEN Tail(s) ELSE s
      good == body # <<>> /\ \A i \in 1..Len(body) : IsDigit(body[i])
  IN IF good
     THEN [ok |-> TRUE,
           v |-> IF signed /\ Head(s) = "-" THEN 0 - DigitsVal(body, 0)
                 ELSE DigitsVal(body, 0)]
     ELSE [ok |-> FALSE, v |-> 0]

\* _to_int_or_uuid
ToIntOrUuid(id) ==
  LET p == ParseInt(id) IN IF p.ok THEN IntKey(p.v) ELSE StrKey(id)

RECURSIVE NatToStr(_)
NatToStr(n) ==
  IF n < 10 THEN <<Digits[n + 1]>>
  ELSE NatToStr(n \div 10) \o <<Digits[(n % 10) + 1]>>

\* str(d.id()): the identifier of a document as a string.
Str(key) ==
  IF key.t = "int"
  THEN IF key.n < 0 THEN <<"-">> \o NatToStr(0 - key.n) ELSE NatToStr(key.n)
  ELSE key.s

\* ---------------------------------------------------------------- documents
Doc(id, content) == [id |-> id, content |-> content]

Docs == { Doc(IntKey(11), "x"),
          Doc(StrKey(<<"1", "1">>), "y"),
          Doc(StrKey(<<"1", "a">>), "z") }

DocId(d) == d.id

\* The embedding of a text: a vector of the adapter's dimension.
Embedding(text, dim) == [dim |-> dim, of |-> text]

Range(xs) == {xs[i] : i \in 1..Len(xs)}

RECURSIVE SeqsUpTo(_, _)
SeqsUpTo(S, n) ==
  IF n = 0 THEN {<<>>}
  ELSE LET shorter == SeqsUpTo(S, n - 1)
       IN shorter \cup {Append(xs, x) : xs \in {ys \in shorter : Len(ys) = n - 1},
                                        x \in S}

NoRepeat(xs) == \A i, j \in 1..Len(xs) : i # j => xs[i] # xs[j]

DocLists == SeqsUpTo(Docs, MaxDocs)

IdStrings == {Str(DocId(d)) : d \in Docs}

IdLists == SeqsUpTo(IdStrings, MaxIds)

Texts == {"q"}
Wheres == {None, "w"}

\* ------------------------------------------------------------ the service
NoColl == [exists |-> FALSE, size |-> 0, points |-> {}]

Point(d) == [id |-> DocId(d), payload |-> d]

PointsCount(c) == Cardinality(c.points)

GetCollectionsReq == [req |-> "get_collections"]
GetCollectionReq(n) == [req |-> "get_collection", name |-> n]
RecreateReq(n, size) == [req |-> "recreate_collection", name |-> n, size |-> size,
                         distance |-> "Cosine"]
DeleteReq(n) == [req |-> "delete_collection", name |-> n]
EmbedReq(texts) == [req |-> "embed", texts |-> texts]
UpsertReq(n, ids, vectors, payloads) ==
  [req |-> "upsert", name |-> n, ids |-> ids, vectors |-> vectors,
   payloads |-> payloads]
RetrieveReq(n, ids) == [req |-> "retrieve", name |-> n, ids |-> ids,
                        with_vectors |-> FALSE, with_payload |-> TRUE]
SearchReq(n, vector, filter, k) ==
  [req |-> "search", name |-> n, query_vector |-> vector, query_filter |-> filter,
   limit |-> k, hnsw_ef |-> HnswEf, exact |-> FALSE]

\* The effect of one accepted request on the service.
Apply(svc, r) ==
  IF r.req = "recreate_collection"
  THEN [svc EXCEPT ![r.name] = [exists |-> TRUE, size |-> r.size, points |-> {}]]
  ELSE IF r.req = "delete_collection"
  THEN [svc EXCEPT ![r.name] = NoColl]
  ELSE IF r.req = "upsert"
  THEN LET new == {[id |-> r.ids[i], payload |-> r.payloads[i]] :
                     i \in 1..Len(r.ids)}
           kept == {p \in svc[r.name].points : \A q \in new : q.id # p.id}
       IN [svc EXCEPT ![r.name].points = kept \cup new]
  ELSE svc

RECURSIVE ApplyAll(_, _)
ApplyAll(svc, rs) ==
  IF rs = <<>> THEN svc ELSE ApplyAll(Apply(svc, Head(rs)), Tail(rs))

\* The service refuses a request that names a collection it does not hold.
Rejected(svc, r) ==
  /\ r.req \in {"get_collection", "upsert", "retrieve", "search"}
  /\ ~svc[r.name].exists

RECURSIVE FirstRejectedFrom(_, _, _)
FirstRejectedFrom(svc, rs, i) ==
  IF rs = <<>> THEN 0
  ELSE IF Rejected(svc, Head(rs)) THEN i
  ELSE FirstRejectedFrom(Apply(svc, Head(rs)), Tail(rs), i + 1)

\* The index of the first request of rs the service refuses, 0 when none.
FirstRejected(svc, rs) == FirstRejectedFrom(svc, rs, 1)

\* The names get_collections lists, in the service's order.
Listing(svc) == SelectSeq(NameOrder, LAMBDA n : svc[n].exists)

\* list_collections
ListScript(svc) ==
  <<GetCollectionsReq>>
    \o [i \in 1..Len(Listing(svc)) |-> GetCollectionReq(Listing(svc)[i])]

\* list_collections without the filter on the counts.
ListResultUnfiltered(svc) == Listing(svc)

ListResult(svc) ==
  SelectSeq(Listing(svc), LAMBDA n : PointsCount(svc[n]) > 0)

InSeq(x, xs) == \E i \in 1..Len(xs) : xs[i] = x

\* The early return with the test of points_count the wrong way round.
CreateSkipsWhenEmpty(svc, n, status) ==
  /\ InSeq(n, ListResult(svc))
  /\ status = "GREEN"
  /\ PointsCount(svc[n]) = 0

\* create_collection returns early: listed, GREEN and non-empty.
CreateSkips(svc, n, status) ==
  /\ InSeq(n, ListResult(svc))
  /\ status = "GREEN"
  /\ PointsCount(svc[n]) > 0

CreateScript(svc, n, dim, status) ==
  ListScript(svc)
    \o (IF InSeq(n, ListResult(svc)) THEN <<GetCollectionReq(n)>> ELSE <<>>)
    \o (IF CreateSkips(svc, n, status) THEN <<>>
        ELSE <<RecreateReq(n, dim), GetCollectionReq(n)>>)

\* The two assertions on the collection read back after recreate_collection;
\* the service reports a collection it has just created as GREEN.
CreateOutcome(svc, n, dim, status) ==
  IF CreateSkips(svc, n, status) THEN "ok"
  ELSE LET info == Apply(svc, RecreateReq(n, dim))[n]
           info_status == "GREEN"
       IN IF info_status = "GREEN" /\ PointsCount(info) = 0
          THEN "ok" ELSE "AssertionError"

SetScript(svc, n, dim, status) ==
  ListScript(svc)
    \o (IF ~InSeq(n, ListResult(svc)) THEN CreateScript(svc, n, dim, status)
        ELSE <<>>)

SetOutcome(svc, n, dim, status) ==
  IF ~InSeq(n, ListResult(svc)) THEN CreateOutcome(svc, n, dim, status) ELSE "ok"

\* clear_empty_collections: the loop over the names list_collections returns.
RECURSIVE ClearLoop(_, _)
ClearLoop(svc, names) ==
  IF names = <<>> THEN [script |-> <<>>, n_deletes |-> 0]
  ELSE LET name == Head(names)
           empty == PointsCount(svc[name]) = 0
           rest == ClearLoop(svc, Tail(names))
       IN [script |-> <<GetCollectionReq(name)>>
                        \o (IF empty THEN <<DeleteReq(name)>> ELSE <<>>)
                        \o rest.script,
           n_deletes |-> (IF empty THEN 1 ELSE 0) + rest.n_deletes]

ClearScript(svc) == ListScript(svc) \o ClearLoop(svc, ListResult(svc)).script

ClearResult(svc) == ClearLoop(svc, ListResult(svc)).n_deletes

\* range(start, n, b)
RECURSIVE PyRange(_, _, _)
PyRange(i, n, b) == IF i >= n THEN <<>> ELSE <<i>> \o PyRange(i + b, n, b)

\* A slice that stops one element early.
SliceShort(xs, i, j) == SubSeq(xs, i + 1, Min(j, Len(xs)) - 1)

\* xs[i:j]
Slice(xs, i, j) == SubSeq(xs, i + 1, Min(j, Len(xs)))

Upserts(name, ids, vecs, docs, b) ==
  LET starts == PyRange(0, Len(ids), b)
  IN [c \in 1..Len(starts) |->
        UpsertReq(name, Slice(ids, starts[c], starts[c] + b),
                  Slice(vecs, starts[c], starts[c] + b),
                  Slice(docs, starts[c], starts[c] + b))]

\* add_documents
AddScript(docs, name, b, dim) ==
  IF Len(docs) = 0 THEN <<>>
  ELSE LET texts == [i \in 1..Len(docs) |-> docs[i].content]
           embedding_vecs == [i \in 1..Len(docs) |-> Embedding(texts[i], dim)]
           ids == [i \in 1..Len(docs) |-> DocId(docs[i])]
       IN <<EmbedReq(texts)>>
            \o (IF name = None THEN <<>>
                ELSE Upserts(name, ids, embedding_vecs, docs, b))

\* add_documents without the test of the collection name.
AddOutcomeUnchecked(docs, name) ==
  IF Len(docs) = 0 THEN "ok" ELSE "ok"

AddOutcome(docs, name) ==
  IF Len(docs) = 0 THEN "ok"
  ELSE IF name = None THEN "ValueError" ELSE "ok"

\* get_documents_by_ids
GetOutcome(name) == IF name = None THEN "ValueError" ELSE "ok"

GetKeys(ids) == [i \in 1..Len(ids) |-> ToIntOrUuid(ids[i])]

GetScript(ids, name) ==
  IF name = None THEN <<>> ELSE <<RetrieveReq(name, GetKeys(ids))>>

\* The records the service returns for a retrieve request: the points found.
Retrieved(svc, name, keys) ==
  LET found == SelectSeq(keys, LAMBDA k : \E p \in svc[name].points : p.id = k)
  IN [i \in 1..Len(found) |->
        CHOOSE p \in svc[name].points : p.id = found[i]]

GetResult(svc, ids, name) ==
  LET records == Retrieved(svc, name, GetKeys(ids))
  IN [i \in 1..Len(records) |-> records[i].payload]

\* similar_texts_with_scores
SearchFilter(where) ==
  IF where = None THEN [must |-> None] ELSE [must |-> where]

SearchScript(text, k, where, name, dim) ==
  <<EmbedReq(<<text>>)>>
    \o (IF name = None THEN <<>>
        ELSE <<SearchReq(name, Embedding(text, dim), SearchFilter(where), k)>>)

SearchOutcome(name) == IF name = None THEN "ValueError" ELSE "ok"

\* A pairing that reads the scores from the other end.
ZipShifted(xs, ys) ==
  [i \in 1..Min(Len(xs), Len(ys)) |-> <<xs[i], ys[Len(ys) + 1 - i]>>]

\* list(zip(xs, ys))
Zip(xs, ys) == [i \in 1..Min(Len(xs), Len(ys)) |-> <<xs[i], ys[i]>>]

SearchResult(search_result) ==
  LET scores == [i \in 1..Len(search_result) |-> search_result[i].score]
      docs == [i \in 1..Len(search_result) |-> search_result[i].payload]
  IN IF Len(docs) = 0 THEN <<>> ELSE Zip(docs, scores)

\* What the service may answer to a search with limit k: at most k of the
\* collection's points, each once, best score first.
SearchAnswers(svc, name, k) ==
  IF ~svc[name].exists THEN {<<>>}
  ELSE {[i \in 1..Len(ps) |->
           [id |-> ps[i].id, payload |-> ps[i].payload, score |-> Len(ps) + 1 - i]] :
          ps \in {qs \in SeqsUpTo(svc[name].points, k) : NoRepeat(qs)}}

\* ------------------------------------------------------------------- state
Service == colls

NoCall == [op |-> "none", name |-> None, status |-> None, docs |-> <<>>,
           batch_size |-> 0, answer |-> <<>>,
           ids |-> <<>>, text |-> "", k |-> 0, where |-> None]

NoResult == <<>>

\* A collection another client left in the service.
InitColls ==
  {NoColl} \cup
  {[exists |-> TRUE, size |-> s, points |-> ps] :
     s \in Dims, ps \in {{}} \cup {{Point(d)} : d \in Docs}}

Init ==
  /\ colls \in [Names -> InitColls]
  /\ collection_name = None
  /\ embedding_dim = CHOOSE d \in Dims : \A e \in Dims : d <= e
  /\ faultsOn = FALSE
  /\ call = NoCall
  /\ requests = <<>>
  /\ outcome = "ok"
  /\ result = NoResult
  /\ warned = FALSE
  /\ failed = 0
  /\ pre = [colls |-> colls, collection_name |-> None]

FaultInit ==
  /\ colls \in [Names -> InitColls]
  /\ collection_name = None
  /\ embedding_dim = CHOOSE d \in Dims : \A e \in Dims : d <= e
  /\ faultsOn = TRUE
  /\ call = NoCall
  /\ requests = <<>>
  /\ outcome = "ok"
  /\ result = NoResult
  /\ warned = FALSE
  /\ failed = 0
  /\ pre = [colls |-> colls, collection_name |-> None]

\* The requests that can be made to fail: any one of the script, or none.
Faults(script) == IF faultsOn THEN 0..Len(script) ELSE {0}

\* The request at which the operation stops: the injected failure or the
\* first request the service refuses, whichever comes first; 0 when none.
FailedAt(svc, script, f) ==
  LET nat == FirstRejected(svc, script)
  IN IF f > 0 /\ (nat = 0 \/ f < nat) THEN f ELSE nat

\* The failed request sent a second time.
IssuedWithRetry(script, at) ==
  IF at = 0 THEN script
  ELSE SubSeq(script, 1, at) \o <<script[at]>>

\* The requests sent: an exception in a request ends the operation there.
Issued(script, at) == IF at = 0 THEN script ELSE SubSeq(script, 1, at)

\* The requests the service carried out: those before the failed one.
Completed(script, at) == IF at = 0 THEN script ELSE SubSeq(script, 1, at - 1)

\* One call of an adapter method: the name it leaves in the configuration,
\* the requests it sends, and how it ends.
Perform(c, newName, script, f, okOutcome, okResult, okWarned) ==
  LET at == FailedAt(Service, script, f)
      post == ApplyAll(Service, Completed(script, at))
  IN /\ colls' = post
     /\ collection_name' = newName
     /\ call' = c
     /\ requests' = Issued(script, at)
     /\ failed' = at
     /\ outcome' = IF at = 0 THEN okOutcome ELSE "ExternalError"
     /\ result' = IF at = 0 /\ okOutcome = "ok" THEN okResult ELSE NoResult
     /\ warned' = (at = 0 /\ okWarned)
     /\ pre' = [colls |-> colls, collection_name |-> collection_name]
     /\ UNCHANGED <<embedding_dim, faultsOn>>

ListCollections ==
  /\ call = NoCall
  /\ LET script == ListScript(Service)
     IN \E f \in Faults(script) :
       Perform([NoCall EXCEPT !.op = "list_collections"], collection_name,
               script, f, "ok", ListResult(Service), FALSE)

ClearEmptyCollections ==
  /\ call = NoCall
  /\ LET script == ClearScript(Service)
     IN \E f \in Faults(script) :
       Perform([NoCall EXCEPT !.op = "clear_empty_collections"], collection_name,
               script, f, "ok", ClearResult(Service), FALSE)

SetCollection ==
  /\ call = NoCall
  /\ \E n \in Names :
    LET script == SetScript(Service, n, embedding_dim, None)
    IN \E f \in Faults(script) :
         Perform([NoCall EXCEPT !.op = "set_collection", !.name = n], n,
                 script, f, SetOutcome(Service, n, embedding_dim, None),
                 NoResult, FALSE)

\* status: the status the service reports when create_collection reads the
\* collection it found listed.
CreateCollection ==
  /\ call = NoCall
  /\ \E n \in Names :
    \E status \in (IF InSeq(n, ListResult(Service)) THEN Statuses ELSE {None}) :
      LET script == CreateScript(Service, n, embedding_dim, status)
      IN \E f \in Faults(script) :
           Perform([NoCall EXCEPT !.op = "create_collection", !.name = n,
                                  !.status = status], n,
                   script, f, CreateOutcome(Service, n, embedding_dim, status),
                   NoResult, CreateSkips(Service, n, status))

AddDocuments ==
  /\ call = NoCall
  /\ \E docs \in DocLists, batch_size \in 1..MaxBatch :
    LET script == AddScript(docs, collection_name, batch_size, embedding_dim)
    IN \E f \in Faults(script) :
         Perform([NoCall EXCEPT !.op = "add_documents", !.docs = docs,
                                !.batch_size = batch_size],
                 collection_name, script, f,
                 AddOutcome(docs, collection_name), NoResult, FALSE)

DeleteCollection ==
  /\ call = NoCall
  /\ \E n \in Names :
    \E f \in Faults(<<DeleteReq(n)>>) :
      Perform([NoCall EXCEPT !.op = "delete_collection", !.name = n],
              collection_name, <<DeleteReq(n)>>, f, "ok", NoResult, FALSE)

GetDocumentsByIds ==
  /\ call = NoCall
  /\ \E ids \in IdLists :
    LET script == GetScript(ids, collection_name)
    IN \E f \in Faults(script) :
         Perform([NoCall EXCEPT !.op = "get_documents_by_ids", !.ids = ids],
                 collection_name, script, f, GetOutcome(collection_name),
                 IF collection_name = None THEN NoResult
                 ELSE GetResult(Service, ids, collection_name), FALSE)

\* search_result: what the service answers when the search request succeeds.
SimilarTextsWithScores ==
  /\ call = NoCall
  /\ \E text \in Texts, k \in 1..MaxK, where \in Wheres :
    LET script == SearchScript(text, k, where, collection_name, embedding_dim)
    IN \E f \in Faults(script) :
         \E search_result \in
              (IF collection_name # None /\ FailedAt(Service, script, f) = 0
               THEN SearchAnswers(Service, collection_name, k)
               ELSE {<<>>}) :
           Perform([NoCall EXCEPT !.op = "similar_texts_with_scores",
                                  !.text = text, !.k = k, !.where = where,
                                  !.answer = search_result],
                   collection_name, script, f,
                   SearchOutcome(collection_name), SearchResult(search_result),
                   collection_name # None /\ Len(search_result) = 0)

\* The caller takes the outcome of the call; the adapter is ready for the next.
Return ==
  /\ call # NoCall
  /\ call' = NoCall
  /\ requests' = <<>>
  /\ outcome' = "ok"
  /\ result' = NoResult
  /\ warned' = FALSE
  /\ failed' = 0
  /\ pre' = [colls |-> colls, collection_name |-> collection_name]
  /\ UNCHANGED <<colls, collection_name, embedding_dim, faultsOn>>

Next ==
  \/ ListCollections
  \/ ClearEmptyCollections
  \/ SetCollection
  \/ CreateCollection
  \/ AddDocuments
  \/ DeleteCollection
  \/ GetDocumentsByIds
  \/ SimilarTextsWithScores
  \/ Return

Spec == Init /\ [][Next]_vars

FaultSpec == FaultInit /\ [][Next]_vars


\* ---------------------------------------------------------------- claims
NameOps == {"create_collection", "set_collection"}
DocumentOps == {"add_documents", "get_documents_by_ids", "similar_texts_with_scores"}

OfKind(rs, kind) == SelectSeq(rs, LAMBDA r : r.req = kind)

RECURSIVE Concat(_)
Concat(xss) == IF xss = <<>> THEN <<>> ELSE Head(xss) \o Concat(Tail(xss))

\* The call found a non-empty collection of the adapter's dimensionality.
FoundMatching(n) ==
  /\ call.op \in NameOps
  /\ call.name = n
  /\ pre.colls[n].exists
  /\ PointsCount(pre.colls[n]) > 0
  /\ pre.colls[n].size = embedding_dim

SkippedCreation(n) ==
  /\ OfKind(requests, "recreate_collection") = <<>>
  /\ colls[n] = pre.colls[n]
  /\ outcome = "ok"

\* C1 as stated: whenever the service holds a non-empty collection n of the
\* adapter's dimensionality, create_collection(n) and set_collection(n) send
\* no recreate request, leave the points of n as they were and return normally.
C1_SkipsWhenNonEmpty == \A n \in Names : FoundMatching(n) => SkippedCreation(n)

\* C1 amended: the same, provided the service reports the collection as GREEN
\* when create_collection reads it; create_collection then logs the warning.
C1_SkipsWhenNonEmptyAndGreen ==
  \A n \in Names :
    (FoundMatching(n) /\ (call.op = "create_collection" => call.status = "GREEN"))
      => /\ SkippedCreation(n)
         /\ call.op = "create_collection" => warned

C1_Witness ==
  /\ FoundMatching("a")
  /\ call.op = "create_collection"
  /\ call.status = "GREEN"
  /\ warned
  /\ outcome = "ok"

\* C2 as stated: with no collection name set, every call of add_documents,
\* get_documents_by_ids and similar_texts_with_scores ends in ValueError.
C2_AlwaysValueError ==
  (call.op \in DocumentOps /\ pre.collection_name = None) => outcome = "ValueError"

\* C2 amended: with no collection name set, get_documents_by_ids,
\* similar_texts_with_scores and add_documents of a non-empty list end in
\* ValueError; add_documents of an empty list returns normally.
C2_ValueErrorUnlessEmptyList ==
  (call.op \in DocumentOps /\ pre.collection_name = None)
    => IF call.op = "add_documents" /\ call.docs = <<>>
       THEN outcome = "ok"
       ELSE outcome = "ValueError"

C2_Witness ==
  /\ call.op = "add_documents"
  /\ Len(call.docs) = 2
  /\ pre.collection_name = None
  /\ outcome = "ValueError"

\* C3: with no collection name set, the three document operations raise
\* before any external request: none reaches the embedding model or the
\* service, and the service's state is unchanged.
C3_FailsBeforeAnyRequest ==
  (call.op \in DocumentOps /\ pre.collection_name = None)
    => /\ requests = <<>>
       /\ colls = pre.colls

\* The active collection is set and the service holds it.
ActiveExists == pre.collection_name # None /\ pre.colls[pre.collection_name].exists

\* C4: with a collection set, add_documents of n documents with batch size b
\* sends ceil(n/b) upserts to the active collection, each of at most b points
\* and all but the last of exactly b; their ids, vectors and payloads,
\* concatenated, are those of the documents in order, and in each request the
\* i-th id, vector and payload belong to one document. An empty list sends none.
C4_UpsertsInChunks ==
  (call.op = "add_documents" /\ ActiveExists)
    => LET docs == call.docs
           n == Len(docs)
           b == call.batch_size
           ups == OfKind(requests, "upsert")
       IN /\ Len(ups) * b >= n
          /\ (Len(ups) - 1) * b < n \/ (n = 0 /\ Len(ups) = 0)
          /\ n = 0 => requests = <<>>
          /\ \A c \in 1..Len(ups) :
               /\ ups[c].name = pre.collection_name
               /\ Len(ups[c].ids) <= b
               /\ Len(ups[c].ids) >= 1
               /\ c < Len(ups) => Len(ups[c].ids) = b
               /\ Len(ups[c].vectors) = Len(ups[c].ids)
               /\ Len(ups[c].payloads) = Len(ups[c].ids)
               /\ \A i \in 1..Len(ups[c].ids) :
                    /\ ups[c].ids[i] = DocId(ups[c].payloads[i])
                    /\ ups[c].vectors[i] =
                         Embedding(ups[c].payloads[i].content, embedding_dim)
          /\ Concat([c \in 1..Len(ups) |-> ups[c].payloads]) = docs
          /\ Concat([c \in 1..Len(ups) |-> ups[c].ids]) =
               [i \in 1..n |-> DocId(docs[i])]
          /\ Concat([c \in 1..Len(ups) |-> ups[c].vectors]) =
               [i \in 1..n |-> Embedding(docs[i].content, embedding_dim)]

C4_Witness ==
  /\ call.op = "add_documents"
  /\ ActiveExists
  /\ Len(call.docs) = 3
  /\ call.batch_size = 2
  /\ Len(OfKind(requests, "upsert")) = 2
  /\ outcome = "ok"

\* C5: list_collections returns the names of the collections that hold at
\* least one point, in the service's listing order, and changes neither the
\* service nor the active collection name.
C5_ListsNonEmpty ==
  call.op = "list_collections"
    => /\ outcome = "ok"
       /\ result = SelectSeq(NameOrder,
                     LAMBDA n : pre.colls[n].exists /\ pre.colls[n].points # {})
       /\ colls = pre.colls
       /\ collection_name = pre.collection_name

C5_Witness ==
  /\ call.op = "list_collections"
  /\ result = <<"b">>
  /\ pre.colls["a"].exists
  /\ pre.colls["a"].points = {}

\* C6: after clear_empty_collections the service holds no empty collection,
\* the non-empty ones are untouched, and the result is the number of
\* collections that were empty before the call.
C6_DeletesEmptyCollections ==
  call.op = "clear_empty_collections"
    => /\ \A n \in Names : colls[n].exists => colls[n].points # {}
       /\ \A n \in Names : pre.colls[n].points # {} => colls[n] = pre.colls[n]
       /\ result = Cardinality({n \in Names : pre.colls[n].exists
                                              /\ pre.colls[n].points = {}})

\* C7: after add_documents(docs) succeeds, get_documents_by_ids of a
\* document's identifier as a string looks up the key the document was stored
\* under and returns a document with the content ingested under it.
C7_RoundTrip ==
  (call.op = "add_documents" /\ outcome = "ok" /\ ActiveExists)
    => \A i \in 1..Len(call.docs) :
         LET d == call.docs[i]
             id == Str(DocId(d))
             got == GetResult(colls, <<id>>, collection_name)
         IN /\ ToIntOrUuid(id) = DocId(d)
            /\ \E j \in 1..Len(got) : got[j].content = d.content

C9_FailurePropagates ==
  failed > 0
    => /\ outcome = "ExternalError"
       /\ result = NoResult
       /\ Len(requests) = failed
       /\ colls = ApplyAll(pre.colls, SubSeq(requests, 1, failed - 1))
       /\ (call.op = "add_documents" /\ failed > 1)
            => LET name == pre.collection_name
                   b == call.batch_size
                   j == failed - 1
                   sent == SubSeq(call.docs, 1, (j - 1) * b)
               IN /\ Len(OfKind(requests, "upsert")) = j
                  /\ requests[failed].payloads[1] = call.docs[(j - 1) * b + 1]
                  /\ \A c \in 1..(j - 1) :
                       requests[c + 1].payloads = SubSeq(call.docs, (c - 1) * b + 1, c * b)
                  /\ \A d \in Docs :
                       Point(d) \in colls[name].points
                         <=> \/ Point(d) \in pre.colls[name].points
                             \/ d \in Range(sent)

C9_Witness ==
  /\ call.op = "add_documents"
  /\ failed = 3
  /\ Len(call.docs) = 3
  /\ call.batch_size = 1
  /\ Point(call.docs[1]) \in colls[pre.collection_name].points
  /\ Point(call.docs[1]) \notin pre.colls[pre.collection_name].points
  /\ Point(call.docs[2]) \notin colls[pre.collection_name].points

\* C10: whenever create_collection(n) or set_collection(n) has returned
\* normally, n is the active collection name and the service holds a
\* collection n of the adapter's embedding dimension.
C10_ActiveHasAdapterDimension ==
  (call.op \in NameOps /\ outcome = "ok")
    => /\ collection_name = call.name
       /\ colls[call.name].exists
       /\ colls[call.name].size = embedding_dim

====
